---- MODULE Spec2Model ----
(***************************************************************************)
(* YATE: the PTY stream-to-styled-text pipeline of src/main.rs.            *)
(*                                                                         *)
(* A reader thread performs blocking reads on the PTY master and appends   *)
(* each chunk to a mutex-protected Vec<u8>; the UI thread, on every        *)
(* update(), takes the whole Vec and hands it to append_new_output, which  *)
(* parses it byte by byte into LayoutJob sections.                         *)
(*                                                                         *)
(* Bytes are integers 0..255.  A Rust String is modelled as the sequence   *)
(* of its UTF-8 bytes, so byte indices and lengths mean what they mean in  *)
(* the source.                                                             *)
(***************************************************************************)
EXTENDS Integers, Sequences, FiniteSets, TLC

----------------------------------------------------------------------------
(* Byte values named in the source.                                        *)

ESC == 27
LBRACKET == 91
LF == 10
CR == 13
LOWER_M == 109
SEMICOLON == 59
PLUS == 43
MINUS == 45
READ_BUF_SIZE == 1024

IsAsciiAlphabetic(b) == (b \in 65..90) \/ (b \in 97..122)

IsAsciiDigit(b) == b \in 48..57

----------------------------------------------------------------------------
(* String::from_utf8_lossy: valid UTF-8 is kept, every maximal invalid     *)
(* part is replaced by U+FFFD (EF BF BD).                                  *)

REPLACEMENT == <<239, 191, 189>>

SafeGet(s, i) == IF i <= Len(s) THEN s[i] ELSE 0

IsCont(b) == b \in 128..191

Utf8CharWidth(b) ==
  IF b < 128 THEN 1
  ELSE IF b \in 194..223 THEN 2
  ELSE IF b \in 224..239 THEN 3
  ELSE IF b \in 240..244 THEN 4
  ELSE 0

\* The second byte of a three- or four-byte character, by its first byte.
SecondOk(b, c) ==
  \/ b = 224 /\ c \in 160..191
  \/ b \in 225..236 /\ c \in 128..191
  \/ b = 237 /\ c \in 128..159
  \/ b \in 238..239 /\ c \in 128..191
  \/ b = 240 /\ c \in 144..191
  \/ b \in 241..243 /\ c \in 128..191
  \/ b = 244 /\ c \in 128..143

\* The character starting at s[i]: whether it is valid and how many bytes
\* it (or the invalid part) takes.
Utf8Chunk(s, i) ==
  LET b == s[i]
      w == Utf8CharWidth(b)
  IN  IF w = 1 THEN [valid |-> TRUE, n |-> 1]
      ELSE IF w = 2 THEN
        IF IsCont(SafeGet(s, i + 1)) THEN [valid |-> TRUE, n |-> 2]
        ELSE [valid |-> FALSE, n |-> 1]
      ELSE IF w = 3 THEN
        IF ~SecondOk(b, SafeGet(s, i + 1)) THEN [valid |-> FALSE, n |-> 1]
        ELSE IF ~IsCont(SafeGet(s, i + 2)) THEN [valid |-> FALSE, n |-> 2]
        ELSE [valid |-> TRUE, n |-> 3]
      ELSE IF w = 4 THEN
        IF ~SecondOk(b, SafeGet(s, i + 1)) THEN [valid |-> FALSE, n |-> 1]
        ELSE IF ~IsCont(SafeGet(s, i + 2)) THEN [valid |-> FALSE, n |-> 2]
        ELSE IF ~IsCont(SafeGet(s, i + 3)) THEN [valid |-> FALSE, n |-> 3]
        ELSE [valid |-> TRUE, n |-> 4]
      ELSE [valid |-> FALSE, n |-> 1]

RECURSIVE LossyFrom(_, _)
LossyFrom(s, i) ==
  IF i > Len(s) THEN <<>>
  ELSE LET c == Utf8Chunk(s, i)
       IN  (IF c.valid THEN SubSeq(s, i, i + c.n - 1) ELSE REPLACEMENT)
             \o LossyFrom(s, i + c.n)

from_utf8_lossy(bytes) == LossyFrom(bytes, 1)

----------------------------------------------------------------------------
(* str operations used by the SGR branch.  Indices are 0-based byte        *)
(* offsets, as in Rust.                                                    *)

EndsWith(s, b) == Len(s) > 0 /\ s[Len(s)] = b

\* str::find(char): the byte offset of the first occurrence, or -1 (None).
Find(s, b) ==
  IF \E i \in 1..Len(s) : s[i] = b
  THEN (CHOOSE i \in 1..Len(s) : s[i] = b /\ \A j \in 1..(i - 1) : s[j] # b) - 1
  ELSE -1

IsCharBoundary(s, i) ==
  \/ i = 0
  \/ i = Len(s)
  \/ i \in 1..(Len(s) - 1) /\ ~IsCont(s[i + 1])

\* &s[lo..hi] panics unless lo <= hi <= len and both are char boundaries.
SliceOk(s, lo, hi) ==
  lo >= 0 /\ lo <= hi /\ hi <= Len(s) /\ IsCharBoundary(s, lo) /\ IsCharBoundary(s, hi)

Slice(s, lo, hi) == SubSeq(s, lo + 1, hi)

\* str::split(';'): always at least one part; an empty string gives one
\* empty part.
RECURSIVE Split(_, _)
Split(s, sep) ==
  LET i == Find(s, sep)
  IN  IF i = -1 THEN <<s>>
      ELSE <<SubSeq(s, 1, i)>> \o Split(SubSeq(s, i + 2, Len(s)), sep)

RECURSIVE StripZeros(_)
StripZeros(d) == IF d # <<>> /\ d[1] = 48 THEN StripZeros(Tail(d)) ELSE d

RECURSIVE DigitsValue(_)
DigitsValue(d) ==
  IF d = <<>> THEN 0 ELSE DigitsValue(SubSeq(d, 1, Len(d) - 1)) * 10 + (d[Len(d)] - 48)

\* u32::MAX = 4294967295 as decimal digits (it exceeds TLC's integers).
U32MaxDigits == <<52, 50, 57, 52, 57, 54, 55, 50, 57, 53>>

RECURSIVE LexGreater(_, _)
LexGreater(a, b) ==
  IF a = <<>> THEN FALSE
  ELSE IF a[1] # b[1] THEN a[1] > b[1]
  ELSE LexGreater(Tail(a), Tail(b))

\* 2^31 - 1 = 2147483647, the largest of TLC's integers, as decimal digits.
I32MaxDigits == <<50, 49, 52, 55, 52, 56, 51, 54, 52, 55>>

\* The value of ten digits d, U32MaxDigits at most, as the 32 bits of the
\* u32 held in one of TLC's 32-bit integers: the value itself below 2^31,
\* and the value minus 2^32 from 2^31 on (4294967295 is -1).  The second is
\* computed from the first five digits h and the last five t as
\* (h - 42948) * 100000 + (t - 167296), which stays within TLC's integers.
TenDigitsValue(d) ==
  IF ~LexGreater(d, I32MaxDigits) THEN DigitsValue(d)
  ELSE (DigitsValue(SubSeq(d, 1, 5)) - 42948) * 100000
         + (DigitsValue(SubSeq(d, 6, 10)) - 167296)

\* str::parse::<u32>(): an optional leading '+', then one or more decimal
\* digits, the value at most u32::MAX.  num is the value; a value of 2^31
\* or more, which TLC's integers do not hold, is num + 2^32 (see
\* TenDigitsValue).
ParseU32(part) ==
  LET err == [ok |-> FALSE, num |-> 0]
      digits == IF part # <<>> /\ part[1] = PLUS THEN Tail(part) ELSE part
      canon == StripZeros(digits)
  IN  IF part = <<>> THEN err
      ELSE IF part = <<PLUS>> \/ part = <<MINUS>> THEN err
      ELSE IF \E i \in 1..Len(digits) : ~IsAsciiDigit(digits[i]) THEN err
      ELSE IF Len(canon) > Len(U32MaxDigits) THEN err
      ELSE IF Len(canon) = Len(U32MaxDigits) THEN
        IF LexGreater(canon, U32MaxDigits) THEN err
        ELSE [ok |-> TRUE, num |-> TenDigitsValue(canon)]
      ELSE [ok |-> TRUE, num |-> DigitsValue(canon)]

----------------------------------------------------------------------------
(* FormatState: current_format.  The colour is the name of the field of    *)
(* Colors that was assigned to it; underline is egui::Stroke::NONE or not. *)

ColorNames ==
  {"white", "black", "red", "green", "yellow", "blue", "magenta", "cyan", "grey",
   "bright_red", "bright_green", "bright_yellow", "bright_blue", "bright_magenta",
   "bright_cyan"}

InitialFormat == [color |-> "white", underline |-> "none"]

\* The match on num with the arms of 31 and 32 and of 91 and 92 exchanged.
ApplySgrCodeSwapped(fmt, num) ==
  CASE num = 0 -> [color |-> "white", underline |-> "none"]
    [] num = 30 -> [fmt EXCEPT !.color = "black"]
    [] num = 31 -> [fmt EXCEPT !.color = "green"]
    [] num = 32 -> [fmt EXCEPT !.color = "red"]
    [] num = 33 -> [fmt EXCEPT !.color = "yellow"]
    [] num = 34 -> [fmt EXCEPT !.color = "blue"]
    [] num = 35 -> [fmt EXCEPT !.color = "magenta"]
    [] num = 36 -> [fmt EXCEPT !.color = "cyan"]
    [] num = 37 -> [fmt EXCEPT !.color = "white"]
    [] num = 90 -> [fmt EXCEPT !.color = "grey"]
    [] num = 91 -> [fmt EXCEPT !.color = "bright_green"]
    [] num = 92 -> [fmt EXCEPT !.color = "bright_red"]
    [] num = 93 -> [fmt EXCEPT !.color = "bright_yellow"]
    [] num = 94 -> [fmt EXCEPT !.color = "bright_blue"]
    [] num = 95 -> [fmt EXCEPT !.color = "bright_magenta"]
    [] num = 96 -> [fmt EXCEPT !.color = "bright_cyan"]
    [] num = 97 -> [fmt EXCEPT !.color = "white"]
    [] OTHER -> fmt

\* The match on num with a code 0 that resets the underline and not the colour.
ApplySgrCodeKeepColor(fmt, num) ==
  CASE num = 0 -> [fmt EXCEPT !.underline = "none"]
    [] num = 30 -> [fmt EXCEPT !.color = "black"]
    [] num = 31 -> [fmt EXCEPT !.color = "red"]
    [] num = 32 -> [fmt EXCEPT !.color = "green"]
    [] num = 33 -> [fmt EXCEPT !.color = "yellow"]
    [] num = 34 -> [fmt EXCEPT !.color = "blue"]
    [] num = 35 -> [fmt EXCEPT !.color = "magenta"]
    [] num = 36 -> [fmt EXCEPT !.color = "cyan"]
    [] num = 37 -> [fmt EXCEPT !.color = "white"]
    [] num = 90 -> [fmt EXCEPT !.color = "grey"]
    [] num = 91 -> [fmt EXCEPT !.color = "bright_red"]
    [] num = 92 -> [fmt EXCEPT !.color = "bright_green"]
    [] num = 93 -> [fmt EXCEPT !.color = "bright_yellow"]
    [] num = 94 -> [fmt EXCEPT !.color = "bright_blue"]
    [] num = 95 -> [fmt EXCEPT !.color = "bright_magenta"]
    [] num = 96 -> [fmt EXCEPT !.color = "bright_cyan"]
    [] num = 97 -> [fmt EXCEPT !.color = "white"]
    [] OTHER -> fmt

\* The match on num with an arm for code 4 that turns the underline on.
ApplySgrCodeUnderline(fmt, num) ==
  CASE num = 0 -> [color |-> "white", underline |-> "none"]
    [] num = 4 -> [fmt EXCEPT !.underline = "single"]
    [] num = 30 -> [fmt EXCEPT !.color = "black"]
    [] num = 31 -> [fmt EXCEPT !.color = "red"]
    [] num = 32 -> [fmt EXCEPT !.color = "green"]
    [] num = 33 -> [fmt EXCEPT !.color = "yellow"]
    [] num = 34 -> [fmt EXCEPT !.color = "blue"]
    [] num = 35 -> [fmt EXCEPT !.color = "magenta"]
    [] num = 36 -> [fmt EXCEPT !.color = "cyan"]
    [] num = 37 -> [fmt EXCEPT !.color = "white"]
    [] num = 90 -> [fmt EXCEPT !.color = "grey"]
    [] num = 91 -> [fmt EXCEPT !.color = "bright_red"]
    [] num = 92 -> [fmt EXCEPT !.color = "bright_green"]
    [] num = 93 -> [fmt EXCEPT !.color = "bright_yellow"]
    [] num = 94 -> [fmt EXCEPT !.color = "bright_blue"]
    [] num = 95 -> [fmt EXCEPT !.color = "bright_magenta"]
    [] num = 96 -> [fmt EXCEPT !.color = "bright_cyan"]
    [] num = 97 -> [fmt EXCEPT !.color = "white"]
    [] OTHER -> fmt

\* The match on num of one parsed SGR parameter.
ApplySgrCode(fmt, num) ==
  CASE num = 0 -> [color |-> "white", underline |-> "none"]
    [] num = 30 -> [fmt EXCEPT !.color = "black"]
    [] num = 31 -> [fmt EXCEPT !.color = "red"]
    [] num = 32 -> [fmt EXCEPT !.color = "green"]
    [] num = 33 -> [fmt EXCEPT !.color = "yellow"]
    [] num = 34 -> [fmt EXCEPT !.color = "blue"]
    [] num = 35 -> [fmt EXCEPT !.color = "magenta"]
    [] num = 36 -> [fmt EXCEPT !.color = "cyan"]
    [] num = 37 -> [fmt EXCEPT !.color = "white"]
    [] num = 90 -> [fmt EXCEPT !.color = "grey"]
    [] num = 91 -> [fmt EXCEPT !.color = "bright_red"]
    [] num = 92 -> [fmt EXCEPT !.color = "bright_green"]
    [] num = 93 -> [fmt EXCEPT !.color = "bright_yellow"]
    [] num = 94 -> [fmt EXCEPT !.color = "bright_blue"]
    [] num = 95 -> [fmt EXCEPT !.color = "bright_magenta"]
    [] num = 96 -> [fmt EXCEPT !.color = "bright_cyan"]
    [] num = 97 -> [fmt EXCEPT !.color = "white"]
    [] OTHER -> fmt

\* The loop over the segments left at the first segment that does not parse
\* (a break in place of going on to the next segment).
RECURSIVE ApplyPartsStopAtBad(_, _)
ApplyPartsStopAtBad(fmt, parts) ==
  IF parts = <<>> THEN fmt
  ELSE LET r == ParseU32(Head(parts))
       IN  IF r.ok THEN ApplyPartsStopAtBad(ApplySgrCode(fmt, r.num), Tail(parts))
           ELSE fmt

\* for part in code_str.split(';') { if let Ok(num) = part.parse::<u32>() ... }
RECURSIVE ApplyParts(_, _)
ApplyParts(fmt, parts) ==
  IF parts = <<>> THEN fmt
  ELSE LET r == ParseU32(Head(parts))
       IN  ApplyParts(IF r.ok THEN ApplySgrCode(fmt, r.num) ELSE fmt, Tail(parts))

\* The slice taken from two bytes after the '[' instead of one.
CodeStrBoundsSkipTwo(ansi_sequence, start_index) ==
  [lo |-> start_index + 2, hi |-> Len(ansi_sequence) - 1]

\* The bounds of &ansi_sequence[start_index + 1..ansi_sequence.len() - 1].
CodeStrBounds(ansi_sequence, start_index) ==
  [lo |-> start_index + 1, hi |-> Len(ansi_sequence) - 1]

\* The end of a sequence without the ends_with('m') test: the parameters
\* are applied whatever letter ends the sequence.
TerminateSequenceAnyLetter(fmt, partial) ==
  LET ansi_sequence == from_utf8_lossy(partial)
      start_index == Find(ansi_sequence, LBRACKET)
      b == CodeStrBounds(ansi_sequence, start_index)
  IN  IF start_index # -1
      THEN IF SliceOk(ansi_sequence, b.lo, b.hi)
           THEN [format |-> ApplyParts(fmt, Split(Slice(ansi_sequence, b.lo, b.hi), SEMICOLON)),
                 panicked |-> FALSE]
           ELSE [format |-> fmt, panicked |-> TRUE]
      ELSE [format |-> fmt, panicked |-> FALSE]

\* A sequence whose last byte is ASCII alphabetic has ended: the format it
\* leaves, and whether slicing the parameter block panicked.
TerminateSequence(fmt, partial) ==
  LET ansi_sequence == from_utf8_lossy(partial)
      start_index == Find(ansi_sequence, LBRACKET)
      b == CodeStrBounds(ansi_sequence, start_index)
  IN  IF EndsWith(ansi_sequence, LOWER_M) /\ start_index # -1
      THEN IF SliceOk(ansi_sequence, b.lo, b.hi)
           THEN [format |-> ApplyParts(fmt, Split(Slice(ansi_sequence, b.lo, b.hi), SEMICOLON)),
                 panicked |-> FALSE]
           ELSE [format |-> fmt, panicked |-> TRUE]
      ELSE [format |-> fmt, panicked |-> FALSE]

----------------------------------------------------------------------------
(* append_new_output.  A parser state p has the three fields of            *)
(* TerminalApp the function writes (layout_job as its list of sections),   *)
(* the local text_to_append, and whether the call has panicked.            *)

\* One more section, and the format given to every section of the job (a
\* single format for the whole job).
LayoutAppendRestyle(job, bytes, fmt) ==
  Append([i \in 1..Len(job) |-> [job[i] EXCEPT !.format = fmt]],
         [text |-> from_utf8_lossy(bytes), format |-> fmt])

\* LayoutJob::append(text, 0.0, format): one more section.
LayoutAppend(job, bytes, fmt) ==
  Append(job, [text |-> from_utf8_lossy(bytes), format |-> fmt])

FlushText(p) ==
  IF p.text_to_append # <<>>
  THEN [p EXCEPT !.layout_job = LayoutAppend(p.layout_job, p.text_to_append, p.current_format),
                 !.text_to_append = <<>>]
  ELSE p

\* b'\x1b' => flush the text, push the byte.
ArmEsc(p, byte) ==
  LET q == FlushText(p)
  IN  [q EXCEPT !.partial_char_buffer = Append(q.partial_char_buffer, byte)]

\* The '[' arm without its guard.
ArmBracketUnguarded(p, byte) == byte = LBRACKET

\* b'[' if self.partial_char_buffer.last() == Some(&b'\x1b')
ArmBracketGuard(p, byte) ==
  /\ byte = LBRACKET
  /\ p.partial_char_buffer # <<>>
  /\ p.partial_char_buffer[Len(p.partial_char_buffer)] = ESC

ArmBracket(p, byte) ==
  [p EXCEPT !.partial_char_buffer = Append(p.partial_char_buffer, byte)]

\* The line break pushed onto text_to_append like an ordinary byte.
ArmNewlineAsText(p, byte) ==
  [p EXCEPT !.text_to_append = Append(p.text_to_append, byte)]

\* b'\n' | b'\r' => flush the text, then the byte as a section of its own.
ArmNewline(p, byte) ==
  LET q == FlushText(p)
  IN  [q EXCEPT !.layout_job = LayoutAppend(q.layout_job, <<byte>>, q.current_format)]

\* _ if !self.partial_char_buffer.is_empty()
ArmSequence(p, byte) ==
  LET buf == Append(p.partial_char_buffer, byte)
      command_char == buf[Len(buf)]
  IN  IF IsAsciiAlphabetic(command_char)
      THEN LET t == TerminateSequence(p.current_format, buf)
           IN  IF t.panicked
               THEN [p EXCEPT !.partial_char_buffer = buf, !.panicked = TRUE]
               ELSE [p EXCEPT !.partial_char_buffer = <<>>, !.current_format = t.format]
      ELSE [p EXCEPT !.partial_char_buffer = buf]

\* _ => flush partial_char_buffer if it is not empty, push the byte.
ArmText(p, byte) ==
  LET q == IF p.partial_char_buffer # <<>>
           THEN [p EXCEPT !.layout_job =
                            LayoutAppend(p.layout_job, p.partial_char_buffer, p.current_format),
                          !.partial_char_buffer = <<>>]
           ELSE p
  IN  [q EXCEPT !.text_to_append = Append(q.text_to_append, byte)]

\* The arms with the in-sequence arm written before the line-break arm.
ArmOfSequenceFirst(p, byte) ==
  IF byte = ESC THEN 1
  ELSE IF ArmBracketGuard(p, byte) THEN 2
  ELSE IF p.partial_char_buffer # <<>> THEN 4
  ELSE IF byte = LF \/ byte = CR THEN 3
  ELSE 5

\* The number of the match arm a byte takes (the first whose pattern and
\* guard hold).
ArmOf(p, byte) ==
  IF byte = ESC THEN 1
  ELSE IF ArmBracketGuard(p, byte) THEN 2
  ELSE IF byte = LF \/ byte = CR THEN 3
  ELSE IF p.partial_char_buffer # <<>> THEN 4
  ELSE 5

\* One iteration of `for &byte in new_output`.
StepByte(p, byte) ==
  LET a == ArmOf(p, byte)
  IN  IF p.panicked THEN p
      ELSE IF a = 1 THEN ArmEsc(p, byte)
      ELSE IF a = 2 THEN ArmBracket(p, byte)
      ELSE IF a = 3 THEN ArmNewline(p, byte)
      ELSE IF a = 4 THEN ArmSequence(p, byte)
      ELSE ArmText(p, byte)

RECURSIVE StepBytes(_, _, _)
StepBytes(p, bytes, i) ==
  IF i > Len(bytes) THEN p ELSE StepBytes(StepByte(p, bytes[i]), bytes, i + 1)

\* The end of the call without the flush: the text gathered since the last
\* flush is dropped with the local text_to_append.
FinalFlushDropped(p) == p

\* The flush after the loop with the sequence in progress flushed as well:
\* appended as a section and cleared.
FinalFlushWithPartial(p) ==
  IF p.panicked THEN p
  ELSE LET q == FlushText(p)
       IN  IF q.partial_char_buffer # <<>>
           THEN [q EXCEPT !.layout_job =
                            Append(q.layout_job,
                                   [text |-> from_utf8_lossy(q.partial_char_buffer),
                                    format |-> q.current_format]),
                          !.partial_char_buffer = <<>>]
           ELSE q

\* The flush after the loop; a panic unwinds past it.
FinalFlush(p) == IF p.panicked THEN p ELSE FlushText(p)

\* append_new_output with partial_char_buffer a local of the call instead of
\* a field: a sequence cut by the end of a chunk is forgotten.
append_new_output_local_partial(app, new_output) ==
  LET p0 == [layout_job |-> app.layout_job,
             current_format |-> app.current_format,
             partial_char_buffer |-> <<>>,
             text_to_append |-> <<>>,
             panicked |-> FALSE]
      p == FinalFlush(StepBytes(p0, new_output, 1))
  IN  [layout_job |-> p.layout_job,
       current_format |-> p.current_format,
       partial_char_buffer |-> p.partial_char_buffer,
       panicked |-> p.panicked]

\* append_new_output(&mut self, new_output), on the fields [layout_job,
\* current_format, partial_char_buffer]; the result also says whether the
\* call panicked.
append_new_output(app, new_output) ==
  LET p0 == [layout_job |-> app.layout_job,
             current_format |-> app.current_format,
             partial_char_buffer |-> app.partial_char_buffer,
             text_to_append |-> <<>>,
             panicked |-> FALSE]
      p == FinalFlush(StepBytes(p0, new_output, 1))
  IN  [layout_job |-> p.layout_job,
       current_format |-> p.current_format,
       partial_char_buffer |-> p.partial_char_buffer,
       panicked |-> p.panicked]

----------------------------------------------------------------------------
(* The byte streams the child process is taken to write to the PTY.        *)

Digit(n) == 48 + n

\* The decimal digits of n.
RECURSIVE Decimal(_)
Decimal(n) ==
  IF n < 10 THEN <<Digit(n)>> ELSE Decimal(n \div 10) \o <<Digit(n % 10)>>

\* ESC [ n m
Sgr(n) == <<ESC, LBRACKET>> \o Decimal(n) \o <<LOWER_M>>

ColorCodes == (30..37) \cup (90..97)

TextHi == <<104, 105>>
TextOk == <<111, 107>>
TextX == <<120>>
TextY == <<121>>
\* "é" in UTF-8
TextEAcute == <<195, 169>>
\* ESC [ 2 J, ESC [ 1 ; 1 H, ESC [ ? 7 h
EraseDisplay == <<ESC, LBRACKET, 50, 74>>
CursorHome == <<ESC, LBRACKET, 49, SEMICOLON, 49, 72>>
ModeSet == <<ESC, LBRACKET, 63, 55, 104>>
\* ESC ] 0 ; t BEL, ESC [ 3 ~, ESC =
OscTitle == <<ESC, 93, 48, SEMICOLON, 116, 7>>
DeleteKey == <<ESC, LBRACKET, 51, 126>>
KeypadMode == <<ESC, 61>>
\* ESC [ 3 and 1 m h i: ESC [ 3 1 m h i cut after the first parameter digit
OpenSgr3 == <<ESC, LBRACKET, 51>>
RestSgr31Hi == <<49, LOWER_M, 104, 105>>
TextANewlineB == <<97, LF, 98>>
TextAReturnB == <<97, CR, 98>>

\* ESC [ 3 LF 1 m: a line feed inside ESC [ 3 1 m
SgrWithLf == <<ESC, LBRACKET, 51, LF, 49, LOWER_M>>

\* ESC [ 31 ; 0 m, ESC [ 0 ; 31 m, ESC [ 31 ; 4 m, ESC [ m, ESC [ ; 32 m,
\* ESC [ ? ; 32 m, ESC [ 31 ; ; 32 m
SgrRedThenReset == <<ESC, LBRACKET, 51, 49, SEMICOLON, 48, LOWER_M>>
SgrResetThenRed == <<ESC, LBRACKET, 48, SEMICOLON, 51, 49, LOWER_M>>
SgrRedThenUnderline == <<ESC, LBRACKET, 51, 49, SEMICOLON, 52, LOWER_M>>
SgrEmpty == <<ESC, LBRACKET, LOWER_M>>
SgrEmptyThenGreen == <<ESC, LBRACKET, SEMICOLON, 51, 50, LOWER_M>>
SgrBadThenGreen == <<ESC, LBRACKET, 63, SEMICOLON, 51, 50, LOWER_M>>
SgrRedEmptyGreen == <<ESC, LBRACKET, 51, 49, SEMICOLON, SEMICOLON, 51, 50, LOWER_M>>

SgrLists ==
  {SgrRedThenReset, SgrResetThenRed, SgrRedThenUnderline, SgrEmptyThenGreen,
   SgrBadThenGreen, SgrRedEmptyGreen}

\* ESC [ 3 1 A
CursorUp31 == <<ESC, LBRACKET, 51, 49, 65>>

UnknownCsi == {EraseDisplay, CursorHome, ModeSet, CursorUp31}

OtherEscapes == {OscTitle, DeleteKey, KeypadMode}

Streams ==
  {TextHi, TextEAcute, TextANewlineB, TextAReturnB, Sgr(31) \o TextANewlineB}
    \cup {Sgr(c) \o TextHi : c \in ColorCodes}
    \cup {Sgr(c) \o TextX \o Sgr(0) \o TextY : c \in ColorCodes}
    \cup {q \o TextOk : q \in UnknownCsi \cup OtherEscapes}
    \cup {Sgr(31) \o q \o TextOk : q \in UnknownCsi}
    \cup {q \o TextX : q \in SgrLists}
    \cup {Sgr(34) \o SgrEmpty \o TextX, Sgr(34) \o SgrRedThenReset \o TextX}
    \cup {SgrWithLf \o TextX, Sgr(4) \o TextX}

\* Every stream of at most MaxStream bytes over a byte of each kind the
\* parser tells apart: ESC, '[', LF, 'm', another letter, a digit, ';', an
\* ASCII byte that is none of these, and a byte that is not ASCII.
MaxStream == 3

Alphabet == {ESC, LBRACKET, LF, LOWER_M, 74, 51, SEMICOLON, 126, 195}

RECURSIVE SeqsUpTo(_, _)
SeqsUpTo(S, n) ==
  IF n = 0 THEN {<<>>}
  ELSE LET shorter == SeqsUpTo(S, n - 1)
       IN  shorter \cup {Append(s, b) : s \in shorter, b \in S}

ByteStreams == SeqsUpTo(Alphabet, MaxStream)

----------------------------------------------------------------------------
(* The running program.                                                    *)

VARIABLES
  pty,                  \* bytes the child has written that no read has returned yet
  ptyRead,              \* history: every byte a read has returned, in read order
  rpc,                  \* reader thread: "read", "lock", "append", "sleep", "done"
  buffer,               \* reader thread: buffer[..count] of the last read
  output_buffer,        \* the shared Vec<u8>
  mutex,                \* who holds the lock of output_buffer: "free", "reader", "ui"
  upc,                  \* UI thread in update(): "lock", "take", "parse", "input",
                        \* "write", "panicked"
  wmutex,               \* who holds the lock of writer: "free", "ui"
  new_output,           \* UI thread: the Vec taken from output_buffer
  layout_job,           \* TerminalApp.layout_job, as its list of sections
  current_format,       \* TerminalApp.current_format
  partial_char_buffer,  \* TerminalApp.partial_char_buffer
  fed                   \* history: every byte passed to append_new_output, in order

vars ==
  <<pty, ptyRead, rpc, buffer, output_buffer, mutex, upc, wmutex, new_output,
    layout_job, current_format, partial_char_buffer, fed>>

readerVars == <<pty, ptyRead, rpc, buffer>>

appVars == <<layout_job, current_format, partial_char_buffer, fed>>

\* main(): the state when the reader thread and the UI have been started.
InitWith(streams) ==
  /\ pty \in streams
  /\ ptyRead = <<>>
  /\ rpc = "read"
  /\ buffer = <<>>
  /\ output_buffer = <<>>
  /\ mutex = "free"
  /\ upc = "lock"
  /\ wmutex = "free"
  /\ new_output = <<>>
  /\ layout_job = <<>>
  /\ current_format = InitialFormat
  /\ partial_char_buffer = <<>>
  /\ fed = <<>>

Init == InitWith(Streams)

InitBytes == InitWith(ByteStreams)

Min(a, b) == IF a < b THEN a ELSE b

\* reader.read(&mut buffer) returns Ok(count), count > 0.
ReaderRead ==
  /\ rpc = "read"
  /\ \E count \in 1..Min(Len(pty), READ_BUF_SIZE) :
       /\ buffer' = SubSeq(pty, 1, count)
       /\ pty' = SubSeq(pty, count + 1, Len(pty))
       /\ ptyRead' = ptyRead \o SubSeq(pty, 1, count)
  /\ rpc' = "lock"
  /\ UNCHANGED <<wmutex, output_buffer, mutex, upc, new_output, appVars>>

\* reader.read returns Ok(0): the child has exited and nothing is left.
ReaderEof ==
  /\ rpc = "read"
  /\ pty = <<>>
  /\ rpc' = "done"
  /\ UNCHANGED <<wmutex, pty, ptyRead, buffer, output_buffer, mutex, upc, new_output, appVars>>

\* reader.read returns Err(e) and the loop goes on to the sleep (a continue
\* in place of the break).
ReaderErrorContinues ==
  /\ rpc = "read"
  /\ rpc' = "sleep"
  /\ UNCHANGED <<wmutex, pty, ptyRead, buffer, output_buffer, mutex, upc, new_output, appVars>>

\* reader.read returns Err(e).
ReaderError ==
  /\ rpc = "read"
  /\ rpc' = "done"
  /\ UNCHANGED <<wmutex, pty, ptyRead, buffer, output_buffer, mutex, upc, new_output, appVars>>

\* cloned_output_buffer.lock().unwrap()
ReaderLock ==
  /\ rpc = "lock"
  /\ mutex = "free"
  /\ mutex' = "reader"
  /\ rpc' = "append"
  /\ UNCHANGED <<wmutex, pty, ptyRead, buffer, output_buffer, upc, new_output, appVars>>

\* output.extend_from_slice(&buffer[..count]); the guard is dropped at the
\* end of the match arm.
ReaderAppend ==
  /\ rpc = "append"
  /\ output_buffer' = output_buffer \o buffer
  /\ buffer' = <<>>
  /\ mutex' = "free"
  /\ rpc' = "sleep"
  /\ UNCHANGED <<wmutex, pty, ptyRead, upc, new_output, appVars>>

\* thread::sleep(Duration::from_millis(1))
ReaderSleep ==
  /\ rpc = "sleep"
  /\ rpc' = "read"
  /\ UNCHANGED <<wmutex, pty, ptyRead, buffer, output_buffer, mutex, upc, new_output, appVars>>

\* update(): self.output_buffer.lock().unwrap()
UiLock ==
  /\ upc = "lock"
  /\ mutex = "free"
  /\ mutex' = "ui"
  /\ upc' = "take"
  /\ UNCHANGED <<wmutex, readerVars, output_buffer, new_output, appVars>>

\* output_buffer.clone() in place of the take: the bytes stay in the Vec.
TakeBufferClone(buf) == [taken |-> buf, left |-> buf]

\* mem::take(&mut *output_buffer)
TakeBuffer(buf) == [taken |-> buf, left |-> <<>>]

\* update() without the block around the take: the guard of output_buffer
\* is still alive after the take.
UiTakeKeepsLock ==
  /\ upc = "take"
  /\ new_output' = TakeBuffer(output_buffer).taken
  /\ output_buffer' = TakeBuffer(output_buffer).left
  /\ mutex' = mutex
  /\ upc' = "parse"
  /\ UNCHANGED <<wmutex, readerVars, appVars>>

\* update(): the take, and the guard dropped at the end of the block.
UiTake ==
  /\ upc = "take"
  /\ new_output' = TakeBuffer(output_buffer).taken
  /\ output_buffer' = TakeBuffer(output_buffer).left
  /\ mutex' = "free"
  /\ upc' = "parse"
  /\ UNCHANGED <<wmutex, readerVars, appVars>>

\* update() with the format set back to the initial one at every call (the
\* format a local of the drain cycle instead of a field).
UiParseFreshFormat ==
  /\ upc = "parse"
  /\ LET app == [layout_job |-> layout_job,
                 current_format |-> InitialFormat,
                 partial_char_buffer |-> partial_char_buffer]
         r == IF new_output # <<>>
              THEN append_new_output(app, new_output)
              ELSE app @@ [panicked |-> FALSE]
     IN  /\ layout_job' = r.layout_job
         /\ current_format' = r.current_format
         /\ partial_char_buffer' = r.partial_char_buffer
         /\ upc' = IF r.panicked THEN "panicked" ELSE "input"
  /\ fed' = fed \o new_output
  /\ new_output' = <<>>
  /\ UNCHANGED <<wmutex, readerVars, output_buffer, mutex>>

\* update(): if !new_output.is_empty() { self.append_new_output(&new_output) },
\* and new_output dropped when update() returns.
UiParse ==
  /\ upc = "parse"
  /\ LET app == [layout_job |-> layout_job,
                 current_format |-> current_format,
                 partial_char_buffer |-> partial_char_buffer]
         r == IF new_output # <<>>
              THEN append_new_output(app, new_output)
              ELSE app @@ [panicked |-> FALSE]
     IN  /\ layout_job' = r.layout_job
         /\ current_format' = r.current_format
         /\ partial_char_buffer' = r.partial_char_buffer
         /\ upc' = IF r.panicked THEN "panicked" ELSE "input"
  /\ fed' = fed \o new_output
  /\ new_output' = <<>>
  /\ UNCHANGED <<wmutex, readerVars, output_buffer, mutex>>

\* update() returning without request_repaint_after: it is not called
\* again.
UiNoEnterNoRepaint ==
  /\ upc = "input"
  /\ upc' = "idle"
  /\ UNCHANGED <<readerVars, output_buffer, mutex, wmutex, new_output, appVars>>

\* update(): the text edit has not lost focus on Enter; the scroll area and
\* the text edit are the presentation and are not modelled.  update()
\* returns and, by request_repaint_after, is called again.
UiNoEnter ==
  /\ upc = "input"
  /\ upc' = "lock"
  /\ UNCHANGED <<readerVars, output_buffer, mutex, wmutex, new_output, appVars>>

\* update(): Enter was pressed: self.writer.lock().unwrap()
UiWriterLock ==
  /\ upc = "input"
  /\ wmutex = "free"
  /\ wmutex' = "ui"
  /\ upc' = "write"
  /\ UNCHANGED <<readerVars, output_buffer, mutex, new_output, appVars>>

\* update(): write_all(input_text), write_all("\n"), flush, whose results
\* are dropped; the guard is dropped at the end of the if block.  What is
\* written goes to the child and is not part of the state.
UiWrite ==
  /\ upc = "write"
  /\ wmutex' = "free"
  /\ upc' = "lock"
  /\ UNCHANGED <<readerVars, output_buffer, mutex, new_output, appVars>>

Reader == ReaderRead \/ ReaderEof \/ ReaderError \/ ReaderLock \/ ReaderAppend \/ ReaderSleep

Ui == UiLock \/ UiTake \/ UiParse \/ UiNoEnter \/ UiWriterLock \/ UiWrite

Next == Reader \/ Ui

Spec == Init /\ [][Next]_vars

\* What the scheduling gives.  The reader thread, once its read has
\* returned bytes, goes on to lock, append and sleep; that a read returns is
\* up to the child and is not assumed.  update() is called again after
\* every call (request_repaint_after) and each of its steps, once it can be
\* taken, is taken; a write to the PTY is assumed to return.  The parsing
\* step is enabled exactly when upc = "parse" and is the only step that
\* leaves it, so its weak fairness is written as: update() is not at its
\* parsing for ever.
Fairness ==
  /\ WF_vars(ReaderLock)
  /\ WF_vars(ReaderAppend)
  /\ WF_vars(ReaderSleep)
  /\ WF_vars(UiLock)
  /\ WF_vars(UiTake)
  /\ []<>(upc # "parse")
  /\ WF_vars(UiNoEnter \/ UiWriterLock)
  /\ WF_vars(UiWrite)

SpecFair == Init /\ [][Next]_vars /\ Fairness

SpecBytes == InitBytes /\ [][Next]_vars

----------------------------------------------------------------------------
(* Shared definitions of the properties.                                   *)

InitialApp ==
  [layout_job |-> <<>>, current_format |-> InitialFormat, partial_char_buffer |-> <<>>]

\* What append_new_output leaves when it is given a whole stream at once.
OneChunk(bytes) == append_new_output(InitialApp, bytes)

\* The sections byte by byte: every byte of text with the format of its run.
RECURSIVE Flat(_)
Flat(job) ==
  IF job = <<>> THEN <<>>
  ELSE [i \in 1..Len(Head(job).text) |-> [byte |-> Head(job).text[i], format |-> Head(job).format]]
         \o Flat(Tail(job))

\* One run.
Run(text, fmt) == [text |-> text, format |-> fmt]

IsAscii(bytes) == \A i \in 1..Len(bytes) : bytes[i] < 128

Colored(name) == [color |-> name, underline |-> "none"]

----------------------------------------------------------------------------
\* C1 (as stated): whatever chunks the stream was fed in, the sections are,
\* run by run, the sections of feeding the same bytes as one chunk.
C1_SplitInvariantRuns == layout_job = OneChunk(fed).layout_job

\* C1 (amended): for an ASCII stream, whatever chunks it was fed in, the text
\* of the sections, byte by byte with the format of its run, is that of
\* feeding the same bytes as one chunk; only where runs are cut may differ.
C1_SplitInvariantText ==
  IsAscii(fed) => Flat(layout_job) = Flat(OneChunk(fed).layout_job)

\* "hi" after a colour change was fed in two ticks and became two runs.
C1_Witness ==
  /\ fed = Sgr(31) \o TextHi
  /\ layout_job = <<Run(<<104>>, Colored("red")), Run(<<105>>, Colored("red"))>>

----------------------------------------------------------------------------
\* The bytes drained so far: parsed, or taken and about to be parsed.
Drained == fed \o new_output

\* C2: exactly-once, in-order delivery.  In every state the bytes drained so
\* far, then the bytes in the shared Vec, then the chunk the reader has read
\* and not yet appended, are exactly the bytes read from the PTY, in read
\* order.
C2_ExactlyOnce == Drained \o output_buffer \o buffer = ptyRead

\* Bytes at every stage at once: parsed, in the shared Vec, and in the
\* reader's hands, after at least two reads and one drain.
C2_Witness ==
  /\ fed # <<>>
  /\ output_buffer # <<>>
  /\ buffer # <<>>
  /\ rpc = "lock"

----------------------------------------------------------------------------
\* C3 (as stated): an escape sequence that is not SGR, of any kind the
\* specification lists, is consumed whole and nothing else: once the
\* sequence and the text "ok" after it are parsed, the sections hold the
\* text "ok" and nothing more, in the unchanged initial format.
C3_OtherSequencesDiscarded ==
  \A q \in UnknownCsi \cup OtherEscapes :
    fed = q \o TextOk =>
      /\ Flat(layout_job) = Flat(<<Run(TextOk, InitialFormat)>>)
      /\ current_format = InitialFormat

----------------------------------------------------------------------------
\* The format after nothing, and after ESC [ 31 m.
FormatAfter(pre) == IF pre = <<>> THEN InitialFormat ELSE Colored("red")

C4_Parsed ==
  \A q \in UnknownCsi : \A pre \in {<<>>, Sgr(31)} :
    /\ fed = pre \o q =>
         /\ layout_job = <<>>
         /\ current_format = FormatAfter(pre)
         /\ partial_char_buffer = <<>>
    /\ fed = pre \o q \o TextOk =>
         /\ Flat(layout_job) = Flat(<<Run(TextOk, FormatAfter(pre))>>)
         /\ current_format = FormatAfter(pre)
         /\ partial_char_buffer = <<>>

C4_Tick ==
  (UiParse /\ partial_char_buffer = <<>> /\ \E q \in UnknownCsi : new_output = q \o TextOk) =>
    /\ layout_job' = Append(layout_job, Run(TextOk, current_format))
    /\ current_format' = current_format
    /\ partial_char_buffer' = <<>>

\* C4: unknown-sequence safety.  A sequence ESC [ params L, L a letter
\* other than 'm', fed when no sequence is in progress, appends no run and
\* leaves the format as it was and partial_char_buffer empty, in however
\* many ticks it arrives (C4_Parsed); the text "ok" after it has the format
\* in effect before the sequence, and is exactly one run when it arrives in
\* the tick of the sequence (C4_Tick).
C4_UnknownSequenceSafety == [](C4_Parsed) /\ [][C4_Tick]_vars

\* ESC [ 2 J after a change to red, then "ok": one red run.
C4_Witness ==
  /\ fed = Sgr(31) \o EraseDisplay \o TextOk
  /\ layout_job = <<Run(TextOk, Colored("red"))>>
  /\ current_format = Colored("red")

----------------------------------------------------------------------------
\* The tick that is given 1 m h i after ESC [ 3 was fed, and the tick that
\* is given all of ESC [ 3 1 m h i at once, leave the same: the foreground
\* colour col and the single run "hi" in it.
C5_Tick(col) ==
  (/\ UiParse
   /\ \/ fed = OpenSgr3 /\ partial_char_buffer = OpenSgr3 /\ new_output = RestSgr31Hi
      \/ fed = <<>> /\ new_output = Sgr(31) \o TextHi)
  => /\ layout_job' = <<Run(TextHi, Colored(col))>>
     /\ current_format' = Colored(col)
     /\ partial_char_buffer' = <<>>

\* C5 (as stated): carry-over of an unterminated sequence.  ESC [ 3 in one
\* tick and 1 m h i in the next leave what ESC [ 3 1 m h i in one tick
\* leaves: the colour green and the single run "hi".
C5_CarryOverGreen == [][C5_Tick("green")]_vars

\* C5 (amended): the same, the colour being red, the colour of code 31.
C5_CarryOverRed == [][C5_Tick("red")]_vars

\* ESC [ 3 has been fed and is held; the next tick has taken 1 m h i.
C5_Witness ==
  /\ upc = "parse"
  /\ fed = OpenSgr3
  /\ partial_char_buffer = OpenSgr3
  /\ layout_job = <<>>
  /\ new_output = RestSgr31Hi

----------------------------------------------------------------------------
\* The colours of codes 30..37 and of codes 90..97, in order.
BaseColors == <<"black", "red", "green", "yellow", "blue", "magenta", "cyan", "white">>

BrightColors ==
  <<"grey", "bright_red", "bright_green", "bright_yellow", "bright_blue",
    "bright_magenta", "bright_cyan", "white">>

ExpectedColor(c) == IF c < 90 THEN BaseColors[c - 30 + 1] ELSE BrightColors[c - 90 + 1]

\* C6: base colour mapping.  After ESC [ c m, c in 30..37 or 90..97, the
\* foreground is the colour at position c-30 of the base colours, or c-90 of
\* the bright colours, the underline is as before, and "hi" fed after it is
\* text in that colour.
C6_BaseColorMapping ==
  \A c \in ColorCodes :
    /\ fed = Sgr(c) =>
         /\ current_format = [InitialFormat EXCEPT !.color = ExpectedColor(c)]
         /\ layout_job = <<>>
    /\ fed = Sgr(c) \o TextHi =>
         /\ current_format = [InitialFormat EXCEPT !.color = ExpectedColor(c)]
         /\ Flat(layout_job) = Flat(<<Run(TextHi, Colored(ExpectedColor(c)))>>)

C6_Witness ==
  /\ fed = Sgr(91) \o TextHi
  /\ layout_job = <<Run(TextHi, Colored("bright_red"))>>

----------------------------------------------------------------------------
\* C7: SGR reset.  From the format left by any colour code, with text
\* already appended in it, ESC [ 0 m sets the colour to white and the
\* underline to none, and the text fed after it is appended in that format
\* (the earlier text keeps its colour).
C7_SgrReset ==
  \A c \in ColorCodes :
    /\ fed = Sgr(c) \o TextX \o Sgr(0) =>
         /\ current_format = [color |-> "white", underline |-> "none"]
         /\ layout_job = <<Run(TextX, Colored(ExpectedColor(c)))>>
    /\ fed = Sgr(c) \o TextX \o Sgr(0) \o TextY =>
         /\ current_format = [color |-> "white", underline |-> "none"]
         /\ layout_job = <<Run(TextX, Colored(ExpectedColor(c))), Run(TextY, Colored("white"))>>

C7_Witness ==
  /\ fed = Sgr(34) \o TextX \o Sgr(0) \o TextY
  /\ layout_job = <<Run(TextX, Colored("blue")), Run(TextY, Colored("white"))>>
  /\ current_format = InitialFormat

----------------------------------------------------------------------------
\* C8: line breaks preserved.  "a\nb" (and "a\rb") gives exactly the runs
\* "a", the line break, "b", each in the format in effect; and in every
\* state a run that holds a CR or an LF holds that one byte only.
C8_LineBreaks ==
  /\ fed = TextANewlineB =>
       layout_job = <<Run(<<97>>, InitialFormat), Run(<<LF>>, InitialFormat),
                      Run(<<98>>, InitialFormat)>>
  /\ fed = TextAReturnB =>
       layout_job = <<Run(<<97>>, InitialFormat), Run(<<CR>>, InitialFormat),
                      Run(<<98>>, InitialFormat)>>
  /\ fed = Sgr(31) \o TextANewlineB =>
       layout_job = <<Run(<<97>>, Colored("red")), Run(<<LF>>, Colored("red")),
                      Run(<<98>>, Colored("red"))>>
  /\ \A i \in 1..Len(layout_job) :
       (\E j \in 1..Len(layout_job[i].text) : layout_job[i].text[j] \in {LF, CR})
         => Len(layout_job[i].text) = 1

C8_Witness ==
  /\ fed = Sgr(31) \o TextANewlineB
  /\ Len(layout_job) = 3
  /\ layout_job[2] = Run(<<LF>>, Colored("red"))

----------------------------------------------------------------------------
\* The parser state at the start of a call of append_new_output.
ParserNow ==
  [layout_job |-> layout_job,
   current_format |-> current_format,
   partial_char_buffer |-> partial_char_buffer,
   text_to_append |-> <<>>,
   panicked |-> FALSE]

AllBytes == 0..255

\* The slice bounds when 'm' is the next byte of a sequence in progress.
SliceValidOnM ==
  LET ansi_sequence == from_utf8_lossy(Append(partial_char_buffer, LOWER_M))
      start_index == Find(ansi_sequence, LBRACKET)
      b == CodeStrBounds(ansi_sequence, start_index)
  IN  (partial_char_buffer # <<>> /\ start_index # -1) =>
        /\ 0 <= b.lo /\ b.lo <= b.hi /\ b.hi <= Len(ansi_sequence)
        /\ IsCharBoundary(ansi_sequence, b.lo)
        /\ IsCharBoundary(ansi_sequence, b.hi)

\* update() is about to be called: the parser is in the state the last
\* call of append_new_output left.
TickStart == upc = "lock"

\* A start of a tick with the whole stream read and parsed and the reader
\* ended.  The streams of SpecBytes are closed under prefixes, so the parser
\* state after any ticks over the beginning of a stream is also the parser
\* state of such a state, for the stream that ends there.
StreamParsed ==
  /\ TickStart
  /\ rpc = "done"
  /\ pty = <<>>
  /\ fed = ptyRead

\* C9: the parser never fails.  No call of append_new_output has panicked,
\* and from the parser state every stream leaves, in whatever ticks it was
\* parsed, every byte 0..255 is processed without a panic; for the byte 'm'
\* ending a sequence that holds a '[', the bounds of the parameter slice
\* are valid.
C9_NeverFails ==
  /\ upc # "panicked"
  /\ StreamParsed =>
       LET p == ParserNow
       IN  \A byte \in AllBytes : ~StepByte(p, byte).panicked
  /\ SliceValidOnM

\* ESC [ m has been parsed: the parameter slice was the empty one.
C9_Witness ==
  /\ StreamParsed
  /\ fed = <<ESC, LBRACKET, LOWER_M>>
  /\ partial_char_buffer = <<>>

----------------------------------------------------------------------------
IsLetter(b) == (b \in 65..90) \/ (b \in 97..122)

\* C10: partial_char_buffer, when not empty, starts with ESC and holds no
\* ASCII letter; it is empty before anything is parsed and whenever the byte
\* parsed last is an ASCII letter.
C10_PartialBuffer ==
  /\ partial_char_buffer # <<>> =>
       /\ partial_char_buffer[1] = ESC
       /\ \A i \in 1..Len(partial_char_buffer) : ~IsLetter(partial_char_buffer[i])
  /\ fed = <<>> => partial_char_buffer = <<>>
  /\ (fed # <<>> /\ IsLetter(fed[Len(fed)])) => partial_char_buffer = <<>>

\* A sequence in progress, ESC [ 3, was ended by the letter J.
C10_Witness ==
  /\ fed = <<ESC, LBRACKET, 74>>
  /\ partial_char_buffer = <<>>
  /\ layout_job = <<>>


\* ---------------------------------------------------------------------
\* C11

\* bytes is the end of s.
IsSuffix(bytes, s) ==
  /\ Len(bytes) <= Len(s)
  /\ SubSeq(s, Len(s) - Len(bytes) + 1, Len(s)) = bytes

\* Between a successful read and its append the reader holds the count > 0
\* bytes it has just read.
C11_Holding ==
  rpc \in {"lock", "append"} => buffer # <<>> /\ IsSuffix(buffer, ptyRead)

C11_Step ==
  /\ rpc = "done" =>
       /\ rpc' = "done"
       /\ ptyRead' = ptyRead
       /\ output_buffer' = output_buffer \/ output_buffer' = <<>>
  /\ rpc = "read" /\ rpc' # "read" =>
       IF ptyRead' = ptyRead
         THEN rpc' = "done" /\ output_buffer' = output_buffer
         ELSE /\ rpc' = "lock"
              /\ \E n \in 1..Len(pty) :
                   /\ buffer' = SubSeq(pty, 1, n)
                   /\ ptyRead' = ptyRead \o buffer'
  /\ rpc = "lock" => rpc' \in {"lock", "append"}
  /\ rpc = "append" /\ rpc' # "append" =>
       /\ output_buffer' = output_buffer \o buffer
       /\ rpc' = "sleep"
  /\ rpc = "sleep" => rpc' \in {"sleep", "read"}
  /\ rpc # "append" => Len(output_buffer') <= Len(output_buffer)

\* C11: a read that returns no bytes (Ok(0) or Err) takes the reader to its
\* end, and from then on nothing is read and output_buffer only stays or is
\* drained; a read of n > 0 bytes leads to the append of exactly those n
\* bytes and then to the sleep and the next read.  Only the reader's append
\* makes output_buffer longer.
C11_ReaderTermination == [](C11_Holding) /\ [][C11_Step]_vars

\* The reader has stopped on an error with bytes of the child unread, and
\* what it had appended before has been drained and parsed.
C11_Witness ==
  /\ rpc = "done"
  /\ pty # <<>>
  /\ ptyRead # <<>>
  /\ output_buffer = <<>>
  /\ fed = ptyRead

\* ---------------------------------------------------------------------
\* C12

\* a is the beginning of b.
IsPrefix(a, b) == Len(a) <= Len(b) /\ SubSeq(b, 1, Len(a)) = a

\* C12: across every step the sections of layout_job before the step are
\* the first sections of layout_job after it, with the same text and the
\* same format: a section is never removed, and one that has been appended
\* is never changed by a later SGR sequence.
C12_AppendOnlyRuns == [][IsPrefix(layout_job, layout_job')]_vars

\* A red "x" appended, then ESC[0m, then a white "y": the first section is
\* still red.
C12_Witness ==
  /\ fed = Sgr(31) \o TextX \o Sgr(0) \o TextY
  /\ Len(layout_job) = 2
  /\ layout_job[1] = Run(TextX, Colored("red"))
  /\ layout_job[2] = Run(TextY, InitialFormat)

\* ---------------------------------------------------------------------
\* C13

\* The bytes of a stream that are not consumed into an escape sequence, in
\* order, each with the format in effect when it is processed.  seq is the
\* sequence in progress and fmt the format, before bytes[i].
RECURSIVE LiteralsFrom(_, _, _, _)
LiteralsFrom(seq, fmt, bytes, i) ==
  IF i > Len(bytes) THEN <<>>
  ELSE LET b == bytes[i]
       IN  IF b = ESC
             THEN LiteralsFrom(Append(seq, b), fmt, bytes, i + 1)
           ELSE IF b = LBRACKET /\ seq # <<>> /\ seq[Len(seq)] = ESC
             THEN LiteralsFrom(Append(seq, b), fmt, bytes, i + 1)
           ELSE IF b = LF \/ b = CR
             THEN <<[byte |-> b, format |-> fmt]>> \o LiteralsFrom(seq, fmt, bytes, i + 1)
           ELSE IF seq # <<>>
             THEN IF IsLetter(b)
                    THEN LiteralsFrom(<<>>, TerminateSequence(fmt, Append(seq, b)).format,
                                      bytes, i + 1)
                    ELSE LiteralsFrom(Append(seq, b), fmt, bytes, i + 1)
           ELSE <<[byte |-> b, format |-> fmt]>> \o LiteralsFrom(seq, fmt, bytes, i + 1)

Literals(bytes) == LiteralsFrom(<<>>, InitialFormat, bytes, 1)

\* C13: after any ticks over an ASCII stream, the texts of the sections put
\* end to end are exactly the bytes fed that were not consumed into an
\* escape sequence, in their order, each once, each with the format in
\* effect when it was processed.
C13_TextOrderPreserved == IsAscii(fed) => Flat(layout_job) = Literals(fed)

\* ESC[92m "hi" fed with a tick boundary inside "hi": two sections, "h" and
\* "i", both bright green.
C13_Witness ==
  /\ fed = Sgr(92) \o TextHi
  /\ layout_job = <<Run(<<TextHi[1]>>, Colored("bright_green")),
                    Run(<<TextHi[2]>>, Colored("bright_green"))>>

\* ---------------------------------------------------------------------
\* C14

C14_Step ==
  /\ upc # "parse" => UNCHANGED <<layout_job, current_format, partial_char_buffer>>
  /\ upc = "parse" /\ new_output = <<>> =>
       /\ UNCHANGED <<layout_job, current_format, partial_char_buffer>>
       /\ upc' # "panicked"

\* C14: only the parsing step of update() changes layout_job,
\* current_format and partial_char_buffer, so a tick starts with the values
\* the previous tick ended with; and a tick whose take found output_buffer
\* empty (every tick after the reader has ended and the buffer was drained
\* is one) leaves the three unchanged and does not panic.
C14_IdleTicks == [][C14_Step]_vars

\* The reader has ended inside a sequence, everything was drained, and a
\* later tick took nothing: the format is the red of ESC[31m and the
\* sequence begun is still ESC [.
C14_Witness ==
  /\ rpc = "done"
  /\ upc = "parse"
  /\ new_output = <<>>
  /\ output_buffer = <<>>
  /\ fed = Sgr(31) \o <<ESC, LBRACKET>>
  /\ ptyRead = fed
  /\ current_format = Colored("red")
  /\ partial_char_buffer = <<ESC, LBRACKET>>

\* ---------------------------------------------------------------------
\* C15

\* C15: the lock of output_buffer is held by the reader exactly while it
\* appends and by update() exactly while it takes: not during the read,
\* the sleep, the parsing or the write to the PTY.  The lock of writer is
\* held exactly during the write, never together with the lock of
\* output_buffer.  In every reachable state some step is possible (a step
\* that takes or gives back a lock, reads, sleeps or writes; or update() is
\* at its parsing, which waits for no lock), and while update() writes to
\* the PTY the reader can take the lock and append.
C15_LockDiscipline ==
  /\ mutex \in {"free", "reader", "ui"}
  /\ wmutex \in {"free", "ui"}
  /\ mutex = "reader" <=> rpc = "append"
  /\ mutex = "ui" <=> upc = "take"
  /\ wmutex = "ui" <=> upc = "write"
  /\ ~(mutex = "ui" /\ wmutex = "ui")
  /\ \/ ENABLED (Reader \/ UiLock \/ UiTake \/ UiNoEnter \/ UiWriterLock \/ UiWrite)
     \/ upc = "parse"
  /\ upc = "write" /\ rpc = "lock" => ENABLED ReaderLock
  /\ upc = "write" /\ rpc = "append" => ENABLED ReaderAppend

\* update() is writing to the PTY under the lock of writer while the
\* reader, with bytes read, is about to lock output_buffer, which is free.
C15_Witness ==
  /\ upc = "write"
  /\ wmutex = "ui"
  /\ rpc = "lock"
  /\ buffer # <<>>
  /\ mutex = "free"

\* ---------------------------------------------------------------------
\* C16

\* The bytes of the escape sequence in progress at the end of a stream:
\* from the ESC that began it, without the line breaks met on the way,
\* empty once an ASCII letter has ended it.
RECURSIVE SequenceFrom(_, _, _)
SequenceFrom(seq, bytes, i) ==
  IF i > Len(bytes) THEN seq
  ELSE LET b == bytes[i]
       IN  IF b = ESC THEN SequenceFrom(Append(seq, b), bytes, i + 1)
           ELSE IF seq = <<>> \/ b = LF \/ b = CR THEN SequenceFrom(seq, bytes, i + 1)
           ELSE IF IsLetter(b) THEN SequenceFrom(<<>>, bytes, i + 1)
           ELSE SequenceFrom(Append(seq, b), bytes, i + 1)

\* C16: in every state, so at every end of a tick and at the start of the
\* next, partial_char_buffer is exactly the sequence in progress, and no
\* section of layout_job holds an ESC, the byte every partial_char_buffer
\* begins with: the buffer is never appended as text.  From the parser
\* state at every start of a tick, a byte that takes the ordinary-byte arm
\* finds the buffer empty, so the flush of partial_char_buffer written in
\* that arm never runs and the arm appends no section.
C16_SequenceNotEmitted ==
  /\ partial_char_buffer = SequenceFrom(<<>>, fed, 1)
  /\ \A i \in 1..Len(layout_job) :
       \A j \in 1..Len(layout_job[i].text) : layout_job[i].text[j] # ESC
  /\ TickStart =>
       \A b \in AllBytes :
         ArmOf(ParserNow, b) = 5 =>
           /\ partial_char_buffer = <<>>
           /\ ArmText(ParserNow, b).layout_job = layout_job

\* A red "x", then the ESC [ of the sequence that follows, and a tick
\* begins: the text is a section, the sequence begun is in the buffer and
\* in no section.
C16_Witness ==
  /\ TickStart
  /\ fed = Sgr(31) \o TextX \o <<ESC, LBRACKET>>
  /\ partial_char_buffer = <<ESC, LBRACKET>>
  /\ layout_job = <<Run(TextX, Colored("red"))>>

\* ---------------------------------------------------------------------
\* C17

\* The colour each parameter list must leave: the last
\* segment that is a code of the table decides.
C17_ColorAfter(q) ==
  CASE q = SgrRedThenReset -> "white"
    [] q = SgrResetThenRed -> "red"
    [] q = SgrRedThenUnderline -> "red"
    [] q = SgrEmptyThenGreen -> "green"
    [] q = SgrBadThenGreen -> "green"
    [] q = SgrRedEmptyGreen -> "green"

\* Codes outside 0, 30..37, 90..97, next to the edges of the table and far
\* from it.
C17_UnknownCodes == {1, 4, 29, 38, 39, 89, 98, 100, 256}

\* C17: the parameters of one SGR sequence are applied from left to right
\* and a segment that is no code of the table is skipped without stopping
\* the later ones: 31;0 leaves white (also after blue), 0;31 leaves red,
\* 31;4 leaves red, an empty or non-numeric segment before 32 leaves green,
\* ESC [ m changes nothing, and a lone code outside the table leaves the
\* format as it is.  The text after the sequence has the colour left.
C17_SgrParameters ==
  /\ \A q \in SgrLists :
       /\ fed = q =>
            /\ current_format = Colored(C17_ColorAfter(q))
            /\ partial_char_buffer = <<>>
            /\ layout_job = <<>>
       /\ fed = q \o TextX =>
            layout_job = <<Run(TextX, Colored(C17_ColorAfter(q)))>>
  /\ fed = Sgr(34) \o SgrRedThenReset => current_format = InitialFormat
  /\ fed = Sgr(34) \o SgrRedThenReset \o TextX =>
       layout_job = <<Run(TextX, InitialFormat)>>
  /\ fed = Sgr(34) \o SgrEmpty =>
       current_format = Colored("blue") /\ partial_char_buffer = <<>>
  /\ fed = Sgr(34) \o SgrEmpty \o TextX =>
       layout_job = <<Run(TextX, Colored("blue"))>>
  /\ (upc = "lock" /\ partial_char_buffer = <<>>) =>
       \A n \in C17_UnknownCodes :
         append_new_output(ParserNow, Sgr(n)).current_format = current_format

\* ESC [ ; 32 m and "x" have been parsed: the empty segment was skipped and
\* 32 applied.
C17_Witness ==
  /\ fed = SgrEmptyThenGreen \o TextX
  /\ layout_job = <<Run(TextX, Colored("green"))>>
  /\ current_format = Colored("green")

\* ---------------------------------------------------------------------
\* C18

\* C18: a CR or LF met while a sequence is in progress is handled as a line
\* break: it is appended as a section of its own with the current format,
\* it does not enter partial_char_buffer, and partial_char_buffer and
\* current_format stay as they are.  So ESC [ 3 LF 1 m appends the LF
\* section (in the format of before) and then sets the colour of code 31,
\* red, in which the text that follows is appended.
C18_LineBreakInSequence ==
  /\ \A i \in 1..Len(partial_char_buffer) :
       partial_char_buffer[i] # LF /\ partial_char_buffer[i] # CR
  /\ partial_char_buffer # <<>> =>
       \A b \in {CR, LF} :
         LET r == append_new_output(ParserNow, <<b>>)
         IN  /\ r.layout_job = Append(layout_job, Run(<<b>>, current_format))
             /\ r.partial_char_buffer = partial_char_buffer
             /\ r.current_format = current_format
             /\ ~r.panicked
  /\ fed = <<ESC, LBRACKET, 51, LF>> =>
       /\ layout_job = <<Run(<<LF>>, InitialFormat)>>
       /\ partial_char_buffer = OpenSgr3
       /\ current_format = InitialFormat
  /\ fed = SgrWithLf =>
       /\ layout_job = <<Run(<<LF>>, InitialFormat)>>
       /\ partial_char_buffer = <<>>
       /\ current_format = Colored("red")
  /\ fed = SgrWithLf \o TextX =>
       layout_job = <<Run(<<LF>>, InitialFormat), Run(TextX, Colored("red"))>>

\* ESC [ 3 LF 1 m "x" has been parsed: the LF section in white, "x" in red.
C18_Witness ==
  /\ fed = SgrWithLf \o TextX
  /\ layout_job = <<Run(<<LF>>, InitialFormat), Run(TextX, Colored("red"))>>
  /\ partial_char_buffer = <<>>

\* ---------------------------------------------------------------------
\* C19

\* The places, counted in bytes of text, where a section of the job ends.
RECURSIVE Cuts(_)
Cuts(job) ==
  IF job = <<>> THEN {}
  ELSE Cuts(SubSeq(job, 1, Len(job) - 1)) \cup {Len(Flat(job))}

\* C19: whatever chunks the bytes were fed in, current_format and
\* partial_char_buffer are those of feeding the same bytes as one chunk; for
\* ASCII bytes the text with the format of each byte is the same too, and
\* the sections differ from those of the one chunk only by further cuts
\* inside them.
C19_PartitionIndependent ==
  LET one == OneChunk(fed)
  IN  /\ current_format = one.current_format
      /\ partial_char_buffer = one.partial_char_buffer
      /\ IsAscii(fed) =>
           /\ Flat(layout_job) = Flat(one.layout_job)
           /\ Cuts(one.layout_job) \subseteq Cuts(layout_job)

\* ESC [ 34 m ESC [ 31 ; 0 m "x" has been fed over the ticks: "x" is white,
\* as in one chunk.
C19_Witness ==
  /\ fed = Sgr(34) \o SgrRedThenReset \o TextX
  /\ upc = "input"
  /\ layout_job = <<Run(TextX, InitialFormat)>>
  /\ current_format = InitialFormat
  /\ partial_char_buffer = <<>>

\* ---------------------------------------------------------------------
\* C20

\* C20: the underline is off in current_format in every reachable state and
\* in the format of every section appended; code 4, alone or after another
\* parameter, does not turn it on, from any state reached.
C20_UnderlineOff ==
  /\ current_format.underline = "none"
  /\ \A i \in 1..Len(layout_job) : layout_job[i].format.underline = "none"
  /\ fed = Sgr(4) \o TextX => layout_job = <<Run(TextX, InitialFormat)>>
  /\ (upc = "lock" /\ partial_char_buffer = <<>>) =>
       append_new_output(ParserNow, Sgr(4)).current_format.underline = "none"

\* ESC [ 4 m "x" has been parsed: "x" is a section without underline.
C20_Witness ==
  /\ fed = Sgr(4) \o TextX
  /\ layout_job = <<Run(TextX, InitialFormat)>>
  /\ current_format.underline = "none"

\* ---------------------------------------------------------------------
\* C21

\* The number of bytes the reader has appended to output_buffer so far.
Appended == Len(ptyRead) - Len(buffer)

\* C21: under Fairness, again and again every byte appended so far has been
\* given to the parser (fed never holds more than was appended, and neither
\* count goes down, so each byte the reader appends is eventually drained
\* and parsed); and once the reader has ended, output_buffer is eventually
\* empty and stays empty for ever.
C21_EventuallyDrained ==
  /\ []<>(Len(fed) = Appended)
  /\ (rpc = "done") ~> [](output_buffer = <<>>)

\* The reader has read the whole of ESC [ 31 m "a" LF "b" and ended, all
\* of it has been parsed, and update() runs on with nothing to take.
C21_Witness ==
  /\ rpc = "done"
  /\ pty = <<>>
  /\ ptyRead = Sgr(31) \o TextANewlineB
  /\ fed = ptyRead
  /\ output_buffer = <<>>
  /\ new_output = <<>>
  /\ upc = "take"
====
